---- MODULE Spec2Model ----
(***************************************************************************)
(* Model of admin_dashboard.py: the Streamlit admin console over the       *)
(* Cosmos DB "users" and "conversations" containers.                       *)
(*                                                                         *)
(*  - Spec      : the script as a state machine: the process-wide caches   *)
(*                (st.cache_resource / st.cache_data(ttl=60)), the store,  *)
(*                the clock, and one action per operator interaction.      *)
(*  - SpecPure  : the in-memory filters, searches and the plan histogram   *)
(*                applied to bounded snapshots.                            *)
(***************************************************************************)
EXTENDS Integers, Sequences, FiniteSets, TLC

VARIABLES
    now,            \* wall clock, seconds
    storeUsers,     \* current content of the "users" container
    storeConvs,     \* current content of the "conversations" container
    client,         \* st.cache_resource entry of get_cosmos_client (NoHandle = empty)
    constructions,  \* number of CosmosClient handles constructed so far
    usersCache,     \* st.cache_data entry of load_users
    convsCache,     \* st.cache_data entry of load_conversations
    page,           \* sidebar radio selection
    running,        \* the script thread has not been ended by an escaped exception
    last,           \* report of the last script run
    users,          \* SpecPure: the snapshot handed to a filter
    conversations,  \* SpecPure: the snapshot handed to a filter
    res             \* SpecPure: what the filter produced

vars == <<now, storeUsers, storeConvs, client, constructions, usersCache,
          convsCache, page, running, last, users, conversations, res>>

cacheVars == <<now, storeUsers, storeConvs, client, constructions, usersCache,
               convsCache, page, running, last>>
pureVars == <<users, conversations, res>>

----------------------------------------------------------------------------
(* Bounds *)
MaxTime == 90
TickStep == 30
MaxConstructions == 3
MaxUsers == 3
MaxConvs == 2
MaxMinMessages == 2

(* Program constants *)
TTL == 60
NoHandle == 0

----------------------------------------------------------------------------
(* Python values.  A str that is searched is a sequence of characters,     *)
(* tagged so that None is a value of the same shape.                       *)
Str(s) == [t |-> "str", s |-> s]
PyNone == [t |-> "none", s |-> <<>>]
\* None for fields whose values are atoms (plan, id)
None == "<None>"

\* dict.get(key, default)
Get(d, key, default) == IF key \in DOMAIN d THEN d[key] ELSE default

LowerChar(c) == IF c = "A" THEN "a" ELSE IF c = "B" THEN "b" ELSE c
\* str.lower()
Lower(s) == [i \in 1..Len(s) |-> LowerChar(s[i])]
\* needle in hay
Contains(hay, needle) ==
    \E i \in 0..(Len(hay) - Len(needle)) : SubSeq(hay, i + 1, i + Len(needle)) = needle

\* term.lower() in v.lower(), where v may be None: AttributeError
LowerRaises(v) == v.t = "none"
LowerIn(term, v) == Contains(Lower(v.s), Lower(term))

Min(a, b) == IF a < b THEN a ELSE b

----------------------------------------------------------------------------
(* Records of the store *)
u1 == [id |-> "u1", email |-> Str(<<"A", "b">>), plan |-> "pro", is_verified |-> TRUE]
u2 == [id |-> "u2", email |-> Str(<<"b">>), plan |-> "free", is_verified |-> FALSE]
u3 == [id |-> "u3", email |-> Str(<<"a">>), is_verified |-> TRUE]
u4 == [id |-> "u4", plan |-> "unknown"]
u5 == [id |-> "u5", email |-> PyNone, plan |-> "pro", is_verified |-> FALSE]

Msg(c) == [content |-> Str(c), isUser |-> TRUE]
c1 == [id |-> "c1", userId |-> "u1", title |-> Str(<<"A", "b">>),
       messages |-> <<Msg(<<"b">>), Msg(<<"A", "b">>)>>]
c2 == [id |-> "c2", userId |-> "u2", title |-> PyNone, messages |-> <<Msg(<<"a">>)>>]
c3 == [id |-> "c3", userId |-> "u1"]
c4 == [id |-> "c4", userId |-> "u3", title |-> Str(<<"b">>),
       messages |-> <<[isUser |-> FALSE], Msg(<<"B", "a">>), Msg(<<"a", "B">>)>>]
c5 == [id |-> "c5", userId |-> "u3", title |-> Str(<<>>), messages |-> <<>>]

\* what the containers may hold while the console runs (ids are unique)
UserSnapshots == { <<u1, u3>>, <<u3, u2, u5>> }
ConvSnapshots == { <<c1, c3>>, <<c2, c1>> }

----------------------------------------------------------------------------
(* Cache layer.  cs is the process-wide cache state:                       *)
(*   [client, constructions, usersCache, convsCache]                       *)
(* f names which external calls of this run fail:                          *)
(*   [client, users, convs : BOOLEAN, lookup : 0..n]  (lookup = k: the     *)
(*   k-th per-user query of the run fails, 0: none)                        *)
EmptyEntry == [present |-> FALSE, value |-> <<>>, ts |-> 0]

\* Fresh with a ttl of zero: nothing is served after the instant it was stored
FreshNoTtl(entry, t) == entry.present /\ t <= entry.ts
\* Fresh without expiry: an entry is served for ever
FreshForever(entry, t) == entry.present

\* st.cache_data(ttl=60): an entry is served while it is younger than ttl
Fresh(entry, t) == entry.present /\ t < entry.ts + TTL

\* @st.cache_resource get_cosmos_client(): built on first successful call
get_cosmos_client(cs, f) ==
    IF cs.client # NoHandle THEN [cs |-> cs, err |-> FALSE]
    ELSE IF f.client THEN [cs |-> cs, err |-> TRUE]
    ELSE [cs |-> [cs EXCEPT !.constructions = Min(@ + 1, MaxConstructions),
                            !.client = Min(cs.constructions + 1, MaxConstructions)],
          err |-> FALSE]

NotCalled == [called |-> FALSE, hit |-> FALSE, err |-> FALSE, queries |-> 0, value |-> <<>>]
Report(hit, err, queries, value) ==
    [called |-> TRUE, hit |-> hit, err |-> err, queries |-> queries, value |-> value]

\* load_users memoizing a failed fetch as an empty snapshot
load_users_memo_failure(cs, f) ==
    IF Fresh(cs.usersCache, now)
    THEN [cs |-> cs, r |-> Report(TRUE, FALSE, 0, cs.usersCache.value)]
    ELSE LET g == get_cosmos_client(cs, f) IN
         IF g.err THEN [cs |-> g.cs, r |-> Report(FALSE, TRUE, 0, <<>>)]
         ELSE IF f.users
         THEN [cs |-> [g.cs EXCEPT !.usersCache =
                          [present |-> TRUE, value |-> <<>>, ts |-> now]],
               r |-> Report(FALSE, TRUE, 1, <<>>)]
         ELSE [cs |-> [g.cs EXCEPT !.usersCache =
                          [present |-> TRUE, value |-> storeUsers, ts |-> now]],
               r |-> Report(FALSE, FALSE, 1, storeUsers)]

\* @st.cache_data(ttl=60) load_users()
load_users(cs, f) ==
    IF Fresh(cs.usersCache, now)
    THEN [cs |-> cs, r |-> Report(TRUE, FALSE, 0, cs.usersCache.value)]
    ELSE LET g == get_cosmos_client(cs, f) IN
         IF g.err THEN [cs |-> g.cs, r |-> Report(FALSE, TRUE, 0, <<>>)]
         ELSE IF f.users THEN [cs |-> g.cs, r |-> Report(FALSE, TRUE, 1, <<>>)]
         ELSE [cs |-> [g.cs EXCEPT !.usersCache =
                          [present |-> TRUE, value |-> storeUsers, ts |-> now]],
               r |-> Report(FALSE, FALSE, 1, storeUsers)]

\* @st.cache_data(ttl=60) load_conversations()
load_conversations(cs, f) ==
    IF Fresh(cs.convsCache, now)
    THEN [cs |-> cs, r |-> Report(TRUE, FALSE, 0, cs.convsCache.value)]
    ELSE LET g == get_cosmos_client(cs, f) IN
         IF g.err THEN [cs |-> g.cs, r |-> Report(FALSE, TRUE, 0, <<>>)]
         ELSE IF f.convs THEN [cs |-> g.cs, r |-> Report(FALSE, TRUE, 1, <<>>)]
         ELSE [cs |-> [g.cs EXCEPT !.convsCache =
                          [present |-> TRUE, value |-> storeConvs, ts |-> now]],
               r |-> Report(FALSE, FALSE, 1, storeConvs)]

\* the store's answer to  SELECT * FROM c WHERE c.userId = @userId
QueryByUser(user_id) == SelectSeq(storeConvs, LAMBDA c : Get(c, "userId", None) = user_id)

\* get_user_conversations answering from the cached bulk load
get_user_conversations_cached(cs, user_id, f, k) ==
    LET lc == load_conversations(cs, f) IN
    [cs |-> lc.cs, err |-> lc.r.err, queries |-> lc.r.queries,
     value |-> SelectSeq(lc.r.value, LAMBDA c : Get(c, "userId", None) = user_id)]

\* get_user_conversations(user_id): not decorated, every call queries the store
get_user_conversations(cs, user_id, f, k) ==
    LET g == get_cosmos_client(cs, f) IN
    IF g.err THEN [cs |-> g.cs, err |-> TRUE, queries |-> 0, value |-> <<>>]
    ELSE IF f.lookup = k THEN [cs |-> g.cs, err |-> TRUE, queries |-> 1, value |-> <<>>]
    ELSE [cs |-> g.cs, err |-> FALSE, queries |-> 1, value |-> QueryByUser(user_id)]

\* a clear that also drops the st.cache_resource entry
cache_clear_all(cs) ==
    [cs EXCEPT !.usersCache = EmptyEntry, !.convsCache = EmptyEntry, !.client = NoHandle]

\* st.cache_data.clear(): every st.cache_data entry, not st.cache_resource
cache_data_clear(cs) == [cs EXCEPT !.usersCache = EmptyEntry, !.convsCache = EmptyEntry]

----------------------------------------------------------------------------
(* Filters, searches and statistics: functions of an in-memory snapshot *)

\* options of the plan selectbox
PlanOptions(us) == {"Tous"} \cup { Get(us[i], "plan", "unknown") : i \in DOMAIN us }

\* users page, "Appliquer les filtres"
FilterUsers(us, filter_plan, filter_verified) ==
    LET byPlan == IF filter_plan # "Tous"
                  THEN SelectSeq(us, LAMBDA u : Get(u, "plan", None) = filter_plan)
                  ELSE us
    IN  IF filter_verified = "Verifies"
        THEN SelectSeq(byPlan, LAMBDA u : Get(u, "is_verified", FALSE))
        ELSE IF filter_verified = "Non verifies"
        THEN SelectSeq(byPlan, LAMBDA u : ~Get(u, "is_verified", FALSE))
        ELSE byPlan

\* conversations page, "Appliquer les filtres"; err: .lower() of a None title
FilterConvs(cv, search_term, min_messages) ==
    LET raises  == /\ search_term # <<>>
                   /\ \E i \in DOMAIN cv : LowerRaises(Get(cv[i], "title", Str(<<>>)))
        byTitle == IF search_term # <<>>
                   THEN SelectSeq(cv, LAMBDA c : LowerIn(search_term, Get(c, "title", Str(<<>>))))
                   ELSE cv
        byCount == IF min_messages > 0
                   THEN SelectSeq(byTitle, LAMBDA c : Len(Get(c, "messages", <<>>)) >= min_messages)
                   ELSE byTitle
    IN  IF raises THEN [err |-> TRUE, out |-> <<>>] ELSE [err |-> FALSE, out |-> byCount]

\* MsgLoop without the break: one append per matching message
RECURSIVE MsgLoopNoBreak(_, _, _, _)
MsgLoopNoBreak(conv, i, kw, results) ==
    LET messages == Get(conv, "messages", <<>>) IN
    IF i > Len(messages) THEN results
    ELSE MsgLoopNoBreak(conv, i + 1, kw,
            IF LowerIn(kw, Get(messages[i], "content", Str(<<>>)))
            THEN Append(results, conv) ELSE results)

\* for msg in messages: if keyword in content: results.append(conv); break
RECURSIVE MsgLoop(_, _, _, _)
MsgLoop(conv, i, kw, results) ==
    LET messages == Get(conv, "messages", <<>>) IN
    IF i > Len(messages) THEN results
    ELSE IF LowerIn(kw, Get(messages[i], "content", Str(<<>>)))
         THEN Append(results, conv)
         ELSE MsgLoop(conv, i + 1, kw, results)

\* for conv in conversations: ...
RECURSIVE ConvLoop(_, _, _, _)
ConvLoop(cv, i, kw, results) ==
    IF i > Len(cv) THEN results
    ELSE ConvLoop(cv, i + 1, kw, MsgLoop(cv[i], 1, kw, results))

\* "Rechercher conversation"
SearchConv(cv, search_conv_id, search_keyword) ==
    IF search_conv_id # ""
    THEN SelectSeq(cv, LAMBDA c : Get(c, "id", None) = search_conv_id)
    ELSE IF search_keyword # <<>> THEN ConvLoop(cv, 1, search_keyword, <<>>)
    ELSE <<>>

\* "Rechercher utilisateur"; err: .lower() of a None email
SearchUser(us, search_email, search_user_id) ==
    IF search_email # <<>>
    THEN IF \E i \in DOMAIN us : LowerRaises(Get(us[i], "email", Str(<<>>)))
         THEN [err |-> TRUE, out |-> <<>>]
         ELSE [err |-> FALSE,
               out |-> SelectSeq(us, LAMBDA u : LowerIn(search_email, Get(u, "email", Str(<<>>))))]
    ELSE IF search_user_id # ""
    THEN [err |-> FALSE, out |-> SelectSeq(us, LAMBDA u : Get(u, "id", None) = search_user_id)]
    ELSE [err |-> FALSE, out |-> <<>>]

\* DictIncr that forgets the previous count
DictIncrOverwrite(d, k) == [x \in DOMAIN d \cup {k} |-> IF x = k THEN 1 ELSE d[x]]

\* plan_counts[plan] = plan_counts.get(plan, 0) + 1
DictIncr(d, k) == [x \in DOMAIN d \cup {k} |-> IF x = k THEN Get(d, k, 0) + 1 ELSE d[x]]

\* for user in users: plan = user.get('plan', 'unknown'); ...
RECURSIVE PlanCounts(_, _, _)
PlanCounts(us, i, plan_counts) ==
    IF i > Len(us) THEN plan_counts
    ELSE PlanCounts(us, i + 1, DictIncr(plan_counts, Get(us[i], "plan", "unknown")))

EmptyDict == [x \in {} |-> 0]

----------------------------------------------------------------------------
(* The script.  A page body takes the cache state and the run's inputs and *)
(* gives the cache state it leaves and what happened:                      *)
(*   [cs, raised, lu, lc, lk]   lu / lc: the load_users / load_conversations*)
(*   call of the run, lk: the per-user lookups of the run                  *)
NoLookups == [calls |-> 0, queries |-> 0, results |-> <<>>]
Run(cs, raised, lu, lc, lk) == [cs |-> cs, raised |-> raised, lu |-> lu, lc |-> lc, lk |-> lk]

\* page "Vue d'ensemble"
Overview(cs, f) ==
    LET lu == load_users(cs, f) IN
    IF lu.r.err THEN Run(lu.cs, TRUE, lu.r, NotCalled, NoLookups)
    ELSE LET lc == load_conversations(lu.cs, f) IN
         Run(lc.cs, lc.r.err, lu.r, lc.r, NoLookups)

\* for user in filtered_users: ... get_user_conversations(user.get('id'))
RECURSIVE LookupLoop(_, _, _, _, _)
LookupLoop(cs, filtered, i, f, lk) ==
    IF i > Len(filtered) THEN [cs |-> cs, raised |-> FALSE, lk |-> lk]
    ELSE LET uid == Get(filtered[i], "id", None)
             g   == get_user_conversations(cs, uid, f, i)
             lk2 == [calls   |-> lk.calls + 1,
                     queries |-> lk.queries + g.queries,
                     results |-> IF g.err THEN lk.results
                                 ELSE Append(lk.results, [user_id |-> uid, value |-> g.value])]
         IN  IF g.err THEN [cs |-> g.cs, raised |-> TRUE, lk |-> lk2]
             ELSE LookupLoop(g.cs, filtered, i + 1, f, lk2)

\* page "Utilisateurs"; a selectbox value that is not an option falls back to "Tous"
UsersPage(cs, f, in) ==
    LET lu == load_users(cs, f) IN
    IF lu.r.err THEN Run(lu.cs, TRUE, lu.r, NotCalled, NoLookups)
    ELSE LET filter_plan == IF in.filter_plan \in PlanOptions(lu.r.value)
                            THEN in.filter_plan ELSE "Tous"
             filtered_users == FilterUsers(lu.r.value, filter_plan, in.filter_verified)
             loop == LookupLoop(lu.cs, filtered_users, 1, f, NoLookups)
         IN  Run(loop.cs, loop.raised, lu.r, NotCalled, loop.lk)

\* page "Conversations"
ConversationsPage(cs, f, in) ==
    LET lc == load_conversations(cs, f) IN
    IF lc.r.err THEN Run(lc.cs, TRUE, NotCalled, lc.r, NoLookups)
    ELSE Run(lc.cs, FilterConvs(lc.r.value, in.search_term, in.min_messages).err,
             NotCalled, lc.r, NoLookups)

\* page "Recherche" with no button pressed: nothing is loaded
SearchPage(cs) == Run(cs, FALSE, NotCalled, NotCalled, NoLookups)

\* page "Recherche", button "Rechercher utilisateur"
SearchUserClick(cs, f, in) ==
    LET lu == load_users(cs, f) IN
    IF lu.r.err THEN Run(lu.cs, TRUE, lu.r, NotCalled, NoLookups)
    ELSE Run(lu.cs, SearchUser(lu.r.value, in.search_email, in.search_user_id).err,
             lu.r, NotCalled, NoLookups)

\* page "Recherche", button "Rechercher conversation"
SearchConvClick(cs, f, in) ==
    LET lc == load_conversations(cs, f) IN
    Run(lc.cs, lc.r.err, NotCalled, lc.r, NoLookups)

\* the script below the sidebar: if page == ... elif ...
PageBody(p, cs, f, in) ==
    IF p = "overview" THEN Overview(cs, f)
    ELSE IF p = "users" THEN UsersPage(cs, f, in)
    ELSE IF p = "conversations" THEN ConversationsPage(cs, f, in)
    ELSE SearchPage(cs)

\* a page body outside any try block
NoTry(raised) == IF raised THEN "uncaught" ELSE "ok"

\* try: ... except Exception as e: st.error(...)
TryExcept(raised) == IF raised THEN "error" ELSE "ok"

----------------------------------------------------------------------------
(* Inputs of a run *)
Pages == {"overview", "users", "conversations", "search"}
Terms == { <<>>, <<"a">> }
PlanChoices == {"Tous", "pro"}
VerifiedChoices == {"Tous", "Verifies"}
NoFailure == [client |-> FALSE, users |-> FALSE, convs |-> FALSE, lookup |-> 0]
\* the first external call that fails ends the run's try block, so a run
\* has at most one failing call
Failures == { NoFailure,
              [NoFailure EXCEPT !.client = TRUE],
              [NoFailure EXCEPT !.users = TRUE],
              [NoFailure EXCEPT !.convs = TRUE],
              [NoFailure EXCEPT !.lookup = 1],
              [NoFailure EXCEPT !.lookup = 2] }
DefaultInputs == [filter_plan |-> "Tous", filter_verified |-> "Tous",
                  search_term |-> <<>>, min_messages |-> 0,
                  search_email |-> <<>>, search_user_id |-> "",
                  search_conv_id |-> "", search_keyword |-> <<>>]
\* the widgets a page shows
InputsFor(p) ==
    IF p = "users"
    THEN { [DefaultInputs EXCEPT !.filter_plan = a, !.filter_verified = b] :
              a \in PlanChoices, b \in VerifiedChoices }
    ELSE IF p = "conversations"
    THEN { [DefaultInputs EXCEPT !.search_term = a, !.min_messages = b] :
              a \in Terms, b \in {0, 1} }
    ELSE IF p = "searchUser"
    THEN { [DefaultInputs EXCEPT !.search_email = a, !.search_user_id = b] :
              a \in Terms, b \in {"", "u1"} }
    ELSE IF p = "searchConv"
    THEN { [DefaultInputs EXCEPT !.search_conv_id = a, !.search_keyword = b] :
              a \in {"", "c1"}, b \in Terms }
    ELSE { DefaultInputs }

CS == [client |-> client, constructions |-> constructions,
       usersCache |-> usersCache, convsCache |-> convsCache]

InitLast == [action |-> "start", outcome |-> "ok", invalidated |-> FALSE,
             lu |-> NotCalled, lc |-> NotCalled, lk |-> NoLookups]

\* the state a run leaves
Commit(action, invalidated, run) ==
    /\ client' = run.cs.client
    /\ constructions' = run.cs.constructions
    /\ usersCache' = run.cs.usersCache
    /\ convsCache' = run.cs.convsCache
    /\ last' = [action |-> action, outcome |-> TryExcept(run.raised),
                invalidated |-> invalidated, lu |-> run.lu, lc |-> run.lc, lk |-> run.lk]
    /\ running' = (TryExcept(run.raised) # "uncaught")
    /\ UNCHANGED <<now, storeUsers, storeConvs>>
    /\ UNCHANGED pureVars

----------------------------------------------------------------------------
(* Spec: operator interactions, the clock and the external writers *)
Init ==
    /\ now = 0
    /\ storeUsers \in UserSnapshots
    /\ storeConvs \in ConvSnapshots
    /\ client = NoHandle
    /\ constructions = 0
    /\ usersCache = EmptyEntry
    /\ convsCache = EmptyEntry
    /\ page = "overview"
    /\ running = TRUE
    /\ last = InitLast
    /\ users = <<>>
    /\ conversations = <<>>
    /\ res = [kind |-> "none"]

\* the operator selects a page, or changes a filter widget of it
View ==
    /\ running
    /\ \E p \in Pages, f \in Failures : \E in \in InputsFor(p) :
          /\ page' = p
          /\ Commit(p, FALSE, PageBody(p, CS, f, in))

ClickSearchUser ==
    /\ running
    /\ page = "search"
    /\ \E f \in Failures, in \in InputsFor("searchUser") :
          /\ page' = page
          /\ Commit("searchUser", FALSE, SearchUserClick(CS, f, in))

ClickSearchConv ==
    /\ running
    /\ page = "search"
    /\ \E f \in Failures, in \in InputsFor("searchConv") :
          /\ page' = page
          /\ Commit("searchConv", FALSE, SearchConvClick(CS, f, in))

\* "Rafraichir les donnees": st.cache_data.clear(); st.rerun()
Refresh ==
    /\ running
    /\ \E f \in Failures, in \in InputsFor(page) :
          /\ page' = page
          /\ Commit("refresh", TRUE, PageBody(page, cache_data_clear(CS), f, in))

Tick ==
    /\ now + TickStep <= MaxTime
    /\ now' = now + TickStep
    /\ UNCHANGED <<storeUsers, storeConvs, client, constructions, usersCache,
                   convsCache, page, running, last>>
    /\ UNCHANGED pureVars

\* the registration / chat systems write to the containers
StoreChange ==
    /\ storeUsers' \in UserSnapshots
    /\ storeConvs' \in ConvSnapshots
    /\ <<storeUsers', storeConvs'>> # <<storeUsers, storeConvs>>
    /\ UNCHANGED <<now, client, constructions, usersCache, convsCache, page, running, last>>
    /\ UNCHANGED pureVars

Next == View \/ ClickSearchUser \/ ClickSearchConv \/ Refresh \/ Tick \/ StoreChange

Spec == Init /\ [][Next]_vars

----------------------------------------------------------------------------
(* SpecPure: the filters applied to bounded snapshots.  Ids are unique in  *)
(* a container, so a snapshot holds a record at most once.                 *)
UserPool == {u1, u2, u3, u4, u5}
ConvPool == {c1, c2, c3, c4, c5}
InjSeqs(S, n) ==
    UNION { { q \in [1..k -> S] : \A i, j \in 1..k : i # j => q[i] # q[j] } : k \in 0..n }

PureTerms == { <<>>, <<"a">>, <<"b">>, <<"A", "B">> }
AllVerifiedChoices == {"Tous", "Verifies", "Non verifies"}

InitPure ==
    /\ now = 0
    /\ storeUsers = <<u1, u3>>
    /\ storeConvs = <<c1, c3>>
    /\ client = NoHandle
    /\ constructions = 0
    /\ usersCache = EmptyEntry
    /\ convsCache = EmptyEntry
    /\ page = "overview"
    /\ running = TRUE
    /\ last = InitLast
    /\ users \in InjSeqs(UserPool, MaxUsers)
    /\ conversations \in InjSeqs(ConvPool, MaxConvs)
    /\ res = [kind |-> "none"]

ApplyFilterUsers ==
    /\ \E fp \in PlanOptions(users), fv \in AllVerifiedChoices :
          res' = [kind |-> "filterUsers", filter_plan |-> fp, filter_verified |-> fv,
                  out |-> FilterUsers(users, fp, fv)]
    /\ UNCHANGED <<users, conversations>>
    /\ UNCHANGED cacheVars

ApplyFilterConvs ==
    /\ \E term \in PureTerms, m \in 0..MaxMinMessages :
          LET r == FilterConvs(conversations, term, m) IN
          res' = [kind |-> "filterConvs", search_term |-> term, min_messages |-> m,
                  err |-> r.err, out |-> r.out]
    /\ UNCHANGED <<users, conversations>>
    /\ UNCHANGED cacheVars

ApplySearchConv ==
    /\ \E cid \in {"", "c1"}, kw \in PureTerms :
          res' = [kind |-> "searchConv", search_conv_id |-> cid, search_keyword |-> kw,
                  out |-> SearchConv(conversations, cid, kw)]
    /\ UNCHANGED <<users, conversations>>
    /\ UNCHANGED cacheVars

ApplyPlanCounts ==
    /\ res' = [kind |-> "planCounts", out |-> PlanCounts(users, 1, EmptyDict)]
    /\ UNCHANGED <<users, conversations>>
    /\ UNCHANGED cacheVars

NextPure == ApplyFilterUsers \/ ApplyFilterConvs \/ ApplySearchConv \/ ApplyPlanCounts

SpecPure == InitPure /\ [][NextPure]_vars

----------------------------------------------------------------------------
(* Properties of the filters (SpecPure) *)

\* the plan a user counts under: a missing plan field is "unknown"
EffPlan(u) == IF "plan" \in DOMAIN u THEN u.plan ELSE "unknown"
IsVerified(u) == "is_verified" \in DOMAIN u /\ u.is_verified
PassesUser(u, fp, fv) ==
    /\ fp = "Tous" \/ EffPlan(u) = fp
    /\ fv = "Tous" \/ (fv = "Verifies" /\ IsVerified(u)) \/ (fv = "Non verifies" /\ ~IsVerified(u))

\* C7: for every plan choice offered for the snapshot and every verification
\* choice, the users filter returns exactly the users that satisfy all active
\* predicates, in snapshot order, a user without plan counting as "unknown".
C7_UserFilterConjunction ==
    res.kind = "filterUsers" =>
        res.out = SelectSeq(users, LAMBDA u : PassesUser(u, res.filter_plan, res.filter_verified))

HasContentWith(msg, kw) ==
    "content" \in DOMAIN msg /\ msg.content.t = "str" /\ Contains(Lower(msg.content.s), Lower(kw))
ConvMatches(c, kw) ==
    "messages" \in DOMAIN c /\ \E i \in DOMAIN c.messages : HasContentWith(c.messages[i], kw)

\* C8: a keyword search (non-empty term, no conversation id) returns exactly
\* the conversations having a message whose content contains the term
\* case-insensitively, each once, in snapshot order.
C8_KeywordSearch ==
    (res.kind = "searchConv" /\ res.search_conv_id = "" /\ res.search_keyword # <<>>) =>
        res.out = SelectSeq(conversations, LAMBDA c : ConvMatches(c, res.search_keyword))

\* a keyword search over a snapshot with a conversation matching in two
\* messages, one not matching, and one without messages
C8_Witness ==
    /\ res.kind = "searchConv" /\ res.search_conv_id = "" /\ res.search_keyword = <<"a">>
    /\ conversations = <<c5, c4>>
    /\ res.out = <<c4>>

TitleContains(c, term) ==
    \/ term = <<>>
    \/ "title" \in DOMAIN c /\ c.title.t = "str" /\ Contains(Lower(c.title.s), Lower(term))
MessageCount(c) == IF "messages" \in DOMAIN c THEN Len(c.messages) ELSE 0

\* C9: for every snapshot (titles absent or null included), title term and
\* minimum count m, the conversations filter returns exactly the conversations
\* whose title contains the term and that have at least m messages.
C9_ConvFilterConjunction ==
    res.kind = "filterConvs" =>
        /\ ~res.err
        /\ res.out = SelectSeq(conversations,
                        LAMBDA c : TitleContains(c, res.search_term)
                                   /\ MessageCount(c) >= res.min_messages)

RECURSIVE SumDict(_)
SumDict(d) ==
    IF DOMAIN d = {} THEN 0
    ELSE LET k == CHOOSE x \in DOMAIN d : TRUE
         IN  d[k] + SumDict([x \in DOMAIN d \ {k} |-> d[x]])

\* C10: the plan histogram counts every user once, under "unknown" when the
\* plan field is missing and under the plan's literal value otherwise; the
\* counts sum to the number of users; plans pro, free, pro give pro:2, free:1.
C10_PlanHistogram ==
    res.kind = "planCounts" =>
        /\ DOMAIN res.out = { EffPlan(users[i]) : i \in DOMAIN users }
        /\ \A p \in DOMAIN res.out :
              res.out[p] = Cardinality({ i \in DOMAIN users : EffPlan(users[i]) = p })
        /\ SumDict(res.out) = Len(users)
        /\ users = <<u1, u2, u5>> => res.out = [p \in {"pro", "free"} |-> IF p = "pro" THEN 2 ELSE 1]

\* a histogram over a user without plan, a user with plan "unknown" and another
C10_Witness ==
    /\ res.kind = "planCounts"
    /\ users = <<u3, u1, u4>>
    /\ res.out["unknown"] = 2
    /\ res.out["pro"] = 1

----------------------------------------------------------------------------
(* Properties of the cache layer and the script (Spec) *)

\* a step that is a run of the script (the clock and the store stand still)
ScriptStep == now' = now /\ storeUsers' = storeUsers /\ storeConvs' = storeConvs

\* the entry holds a snapshot loaded less than 60 seconds before t
InWindow(entry, t) == entry.present /\ t - entry.ts < TTL

HitIsIdempotent(entry, entryAfter, r) ==
    /\ r.value = entry.value
    /\ r.queries = 0
    /\ ~r.err
    /\ entryAfter = entry

\* C1: a cached bulk load inside the freshness window of the entry, with no
\* invalidate before it, returns the stored snapshot (what the load that
\* filled the entry returned) and issues no query, whatever the store holds.
C1_CacheIdempotence ==
    [][ScriptStep =>
          /\ (last'.lu.called /\ ~last'.lu.err) => last'.lu.value = usersCache'.value
          /\ (last'.lc.called /\ ~last'.lc.err) => last'.lc.value = convsCache'.value
          /\ (InWindow(usersCache, now) /\ last'.lu.called /\ ~last'.invalidated)
                => HitIsIdempotent(usersCache, usersCache', last'.lu)
          /\ (InWindow(convsCache, now) /\ last'.lc.called /\ ~last'.invalidated)
                => HitIsIdempotent(convsCache, convsCache', last'.lc)]_vars

\* both loads served from the cache, later than they were stored, while the
\* store holds other data
C1_Witness ==
    /\ last.lu.hit /\ last.lc.hit /\ ~last.invalidated
    /\ now > usersCache.ts /\ now > convsCache.ts
    /\ last.lu.value # storeUsers /\ last.lc.value # storeConvs

\* the users read of this step finds no snapshot it may serve
UsersMiss == last'.lu.called /\ (last'.invalidated \/ ~InWindow(usersCache, now))

\* C2 as stated: the first users read after an invalidate or after the window
\* issues exactly one query, stores the result with a fresh timestamp and
\* returns it.
C2_RefreshAsStated ==
    [][(ScriptStep /\ UsersMiss) =>
          /\ last'.lu.queries = 1
          /\ usersCache' = [present |-> TRUE, value |-> storeUsers, ts |-> now]
          /\ last'.lu.value = storeUsers]_vars

\* C2 amended: such a read never serves the old snapshot and issues at most
\* one query: exactly one unless constructing the store handle fails; when
\* the query succeeds its result is stored with a fresh timestamp and
\* returned; when the handle or the query fails nothing is stored.
C2_CacheRefresh ==
    [][(ScriptStep /\ UsersMiss) =>
          /\ ~last'.lu.hit
          /\ last'.lu.queries <= 1
          /\ last'.lu.queries = 1 \/ (client' = NoHandle /\ last'.lu.err)
          /\ ~last'.lu.err =>
                /\ last'.lu.queries = 1
                /\ usersCache' = [present |-> TRUE, value |-> storeUsers, ts |-> now]
                /\ last'.lu.value = storeUsers
          /\ last'.lu.err =>
                /\ usersCache' = IF last'.invalidated THEN EmptyEntry ELSE usersCache
                /\ last'.lu.value = <<>>]_vars

\* a users read after the window elapsed that fetched the changed store
C2_Witness ==
    /\ last.lu.called /\ ~last.lu.hit /\ ~last.lu.err /\ last.lu.queries = 1
    /\ now >= TTL /\ usersCache.ts = now
    /\ last.lu.value = storeUsers

RefetchFailed(r, entry, entryAfter) ==
    (r.called /\ r.err) =>
        /\ last'.outcome = "error"
        /\ r.value = <<>>
        /\ entryAfter = IF last'.invalidated THEN EmptyEntry ELSE entry
        /\ ~InWindow(entryAfter, now')

C4_HandleSingleton ==
    [][/\ constructions' <= 1
       /\ client # NoHandle => client' = client]_vars

\* a refresh at a later time whose reads queried the store through the one handle
C4_Witness ==
    /\ last.action = "refresh" /\ last.lu.queries = 1 /\ last.lc.queries = 1
    /\ last.outcome = "ok"
    /\ now > 0 /\ client # NoHandle /\ constructions = 1

\* C5: every per-user lookup issues a store query and returns the store's
\* current answer, and a run's lookups leave both cached snapshots as the
\* bulk load of the run left them.
C5_LookupsAlwaysLive ==
    [][ScriptStep =>
          /\ last'.lk.queries = last'.lk.calls
          /\ \A i \in DOMAIN last'.lk.results :
                last'.lk.results[i].value = QueryByUser(last'.lk.results[i].user_id)
          /\ (last'.lk.calls > 0 /\ ~last'.invalidated) =>
                /\ convsCache' = convsCache
                /\ last'.lu.hit => usersCache' = usersCache]_vars

\* lookups made while both snapshots are in their window and the cached
\* conversations differ from the store
C5_Witness ==
    /\ last.lk.calls >= 2 /\ last.lk.queries = last.lk.calls
    /\ last.lu.hit
    /\ InWindow(convsCache, now) /\ convsCache.value # storeConvs
    /\ \E i \in DOMAIN last.lk.results : last.lk.results[i].value # <<>>

\* C6: every run ends in "ok" or in the action's error message, a failure of
\* a load always in the error message, and the script keeps running.
C6_ErrorContainment ==
    /\ running
    /\ last.outcome \in {"ok", "error"}
    /\ (last.lu.err \/ last.lc.err \/ last.lk.queries > Len(last.lk.results))
          => last.outcome = "error"

\* a conversations run that failed while filtering, after a successful load
C6_Witness ==
    /\ last.action = "conversations"
    /\ last.lc.called /\ ~last.lc.err
    /\ last.outcome = "error"
    /\ running

====
